---- MODULE Spec2Model ----
(***************************************************************************)
(* Model of src/src/extract.rs of generic-tests: the analysis front end   *)
(* that strips test-marker attributes from the functions of a module,     *)
(* collects the test records (Tests::try_extract) and extracts the        *)
(* #[instantiate_tests(<...>)] directive (InstArguments::try_extract).    *)
(*                                                                         *)
(* A module is its attribute list, whether its body is inline, and its    *)
(* declaration list.  An attribute is a record [path, style, tokens].     *)
(* Option values are sequences of length at most one: None is << >> and   *)
(* Some(x) is << x >>.  Vec positions are 1-based here, 0-based in Rust.  *)
(***************************************************************************)
EXTENDS Integers, Sequences, FiniteSets, TLC

VARIABLES
    attrs,                   \* ItemMod.attrs of the module under analysis
    inline,                  \* ItemMod.content.is_some()
    items,                   \* ItemMod.content's Vec<Item> (<< >> when not inline)
    pc,                      \* position of Tests::try_extract: idle, loop, done
    pos,                     \* the declaration the `for item in items` loop visits next
    test_fns,                \* tests.test_fns inside extract_recording_errors
    errors,                  \* the ErrorRecord inside extract_recording_errors
    mod_wide_generic_arity,  \* Option<usize> inside extract_recording_errors
    result,                  \* what Tests::try_extract returned
    inst,                    \* what the last InstArguments::try_extract returned
    inst_prev,               \* history: what the call before the last returned
    built,                   \* history: positions TestFnSignature::try_build was called on
    orig                     \* history: the module as it was handed to the analysis

vars == << attrs, inline, items, pc, pos, test_fns, errors,
           mod_wide_generic_arity, result, inst, inst_prev, built, orig >>

(***************************************************************************)
(* Bounds of the input universe.                                           *)
(***************************************************************************)
MaxAttrs == 3       \* attributes on the function of a one-function module
MaxGenerics == 2    \* generic parameters on the function of a one-function module
MaxItems == 3       \* declarations of a several-declaration module
MaxModAttrs == 3    \* attributes on the module

None == << >>
Some(x) == << x >>

Remove(s, i) == [j \in 1..(Len(s) - 1) |-> IF j < i THEN s[j] ELSE s[j + 1]]

SeqsUpTo(S, n) == UNION {[1..k -> S] : k \in 0..n}

(***************************************************************************)
(* The attribute classifier (MacroOpts) and the signature builder are     *)
(* collaborators outside extract.rs.  The classifier is two predicates on *)
(* an attribute; "bench" is both a marker and on the copy list, which the *)
(* configuration allows.                                                   *)
(***************************************************************************)
TestAttrPaths == {"test", "bench"}
CopiedAttrPaths == {"cfg", "should_panic", "bench"}
FnAttrPaths == {"test", "bench", "cfg", "should_panic", "inline"}

is_test_attr(attr) == attr.path \in TestAttrPaths

is_copied_attr(attr) == attr.path \in CopiedAttrPaths

\* TestFnSignature::try_build: fails on a parameter list it cannot structure.
try_build(item) ==
    IF item.inputs = "typed"
    THEN [ok |-> TRUE, sig |-> [inputs |-> item.inputs, of |-> item.ident]]
    ELSE [ok |-> FALSE, err |-> [span |-> item.ident, msg |-> "signature"]]

\* ErrorRecord::add_error: appends one failure.
add_error(rec, e) == Append(rec, e)

\* ErrorRecord::check: Ok(()) when empty, otherwise the ordered merge.
check(rec) == IF rec = << >> THEN [ok |-> TRUE, err |-> << >>]
              ELSE [ok |-> FALSE, err |-> rec]

(***************************************************************************)
(* extract_test_attrs, lines 93-114.                                       *)
(***************************************************************************)
\* The mutant of the while loop that advances pos after a removal too.
RECURSIVE extract_test_attrs_loop_skipping(_, _, _)
extract_test_attrs_loop_skipping(item_attrs, p, test_attrs) ==
    IF p <= Len(item_attrs)
    THEN IF is_test_attr(item_attrs[p])
         THEN extract_test_attrs_loop_skipping(
                  Remove(item_attrs, p), p + 1, Append(test_attrs, item_attrs[p]))
         ELSE extract_test_attrs_loop_skipping(item_attrs, p + 1, test_attrs)
    ELSE [attrs |-> item_attrs, test_attrs |-> test_attrs]

\* The while loop of lines 95-103: p is `pos`, a removal does not advance it.
RECURSIVE extract_test_attrs_loop(_, _, _)
extract_test_attrs_loop(item_attrs, p, test_attrs) ==
    IF p <= Len(item_attrs)
    THEN IF is_test_attr(item_attrs[p])
         THEN extract_test_attrs_loop(
                  Remove(item_attrs, p), p, Append(test_attrs, item_attrs[p]))
         ELSE extract_test_attrs_loop(item_attrs, p + 1, test_attrs)
    ELSE [attrs |-> item_attrs, test_attrs |-> test_attrs]

\* The mutant of lines 104-113 that puts the copied attributes first.
copied_then_markers(drained) ==
    IF drained.test_attrs = << >>
    THEN None
    ELSE Some(SelectSeq(drained.attrs, is_copied_attr) \o drained.test_attrs)

\* The mutant of lines 104-113 without the is_empty test.
markers_then_copied_always(drained) ==
    Some(drained.test_attrs \o SelectSeq(drained.attrs, is_copied_attr))

\* Lines 104-113: None without a marker, else markers then the copied ones
\* among what the loop left on the function.
markers_then_copied(drained) ==
    IF drained.test_attrs = << >>
    THEN None
    ELSE Some(drained.test_attrs \o SelectSeq(drained.attrs, is_copied_attr))

\* extract_test_attrs: attrs is item.attrs afterwards, ret the Option returned.
extract_test_attrs(item) ==
    LET drained == extract_test_attrs_loop(item.attrs, 1, << >>)
    IN  [attrs |-> drained.attrs, ret |-> markers_then_copied(drained)]

(***************************************************************************)
(* generic_arity, lines 116-125.                                           *)
(***************************************************************************)
generic_arity(generics) ==
    Cardinality({i \in DOMAIN generics : generics[i] \in {"Type", "Const"}})

(***************************************************************************)
(* Tests::extract_recording_errors, lines 42-90, one loop iteration per   *)
(* step.                                                                   *)
(***************************************************************************)
\* The mutant of the match that lets a mismatching candidate reset the baseline.
arity_match_revising(mod_wide, fn_generic_arity) ==
    IF mod_wide = None
    THEN [mod_wide |-> Some(fn_generic_arity), accept |-> TRUE]
    ELSE [mod_wide |-> Some(fn_generic_arity), accept |-> fn_generic_arity = mod_wide[1]]

\* The match of lines 60-77: the baseline afterwards, and whether the
\* candidate goes on to be pushed.
arity_match(mod_wide, fn_generic_arity) ==
    IF mod_wide = None
    THEN [mod_wide |-> Some(fn_generic_arity), accept |-> TRUE]
    ELSE [mod_wide |-> mod_wide, accept |-> fn_generic_arity = mod_wide[1]]

\* The error of lines 66-73.
arity_error(item, fn_generic_arity, n) ==
    [span |-> item.ident, msg |-> "generic parameters",
     ident |-> item.ident, has |-> fn_generic_arity, others |-> n]

\* The mutant of the record that takes the two qualifiers the wrong way round.
TestFn_swapped(item, test_attrs, sig) ==
    [test_attrs |-> test_attrs, asyncness |-> item.unsafety,
     unsafety |-> item.asyncness, ident |-> item.ident,
     output |-> item.output, sig |-> sig]

\* The TestFn of lines 78-85.
TestFn(item, test_attrs, sig) ==
    [test_attrs |-> test_attrs, asyncness |-> item.asyncness,
     unsafety |-> item.unsafety, ident |-> item.ident,
     output |-> item.output, sig |-> sig]

Pending == [tag |-> "Pending", test_fns |-> << >>, err |-> << >>]

\* The mutant of the return that drops `errors.check()?`.
try_extract_return_unchecked(tests, errs) ==
    [tag |-> "Ok", test_fns |-> tests, err |-> << >>]

\* Lines 38-39: errors.check()? and Ok((tests, items)).
try_extract_return(tests, errs) ==
    IF check(errs).ok
    THEN [tag |-> "Ok", test_fns |-> tests, err |-> << >>]
    ELSE [tag |-> "Err", test_fns |-> << >>, err |-> check(errs).err]

\* The mutant of the guard that takes every module for an inline one.
content_is_none_never(is_inline) == FALSE

\* Line 33: ast.content.is_none().
content_is_none(is_inline) == ~is_inline

\* Tests::try_extract up to the call of extract_recording_errors (lines
\* 33-37 and 46-48).
Tests_try_extract ==
    /\ pc = "idle"
    /\ IF content_is_none(inline)
       THEN /\ result' = [tag |-> "Err", test_fns |-> << >>,
                          err |-> << [span |-> "mod",
                                      msg |-> "only inline modules are supported"] >>]
            /\ pc' = "done"
            /\ UNCHANGED << pos, test_fns, errors, mod_wide_generic_arity >>
       ELSE /\ pc' = "loop"
            /\ pos' = 1
            /\ errors' = << >>
            /\ test_fns' = << >>
            /\ mod_wide_generic_arity' = None
            /\ UNCHANGED result
    /\ UNCHANGED << attrs, inline, items, inst, inst_prev, built, orig >>

\* One iteration of `for item in items.iter_mut()`, lines 49-88.
extract_recording_errors_item ==
    /\ pc = "loop"
    /\ pos <= Len(items)
    /\ pos' = pos + 1
    /\ IF items[pos].kind # "Fn"
       THEN UNCHANGED << items, test_fns, errors, mod_wide_generic_arity, built >>
       ELSE LET ex == extract_test_attrs(items[pos])
                item == [items[pos] EXCEPT !.attrs = ex.attrs]
                sig == try_build(item)
                fn_generic_arity == generic_arity(item.generics)
                m == arity_match(mod_wide_generic_arity, fn_generic_arity)
            IN  /\ items' = [items EXCEPT ![pos] = item]
                /\ IF ex.ret = None
                   THEN UNCHANGED << test_fns, errors, mod_wide_generic_arity, built >>
                   ELSE /\ built' = built \cup {pos}
                        /\ IF ~sig.ok
                           THEN /\ errors' = add_error(errors, sig.err)
                                /\ UNCHANGED << test_fns, mod_wide_generic_arity >>
                           ELSE /\ mod_wide_generic_arity' = m.mod_wide
                                /\ IF m.accept
                                   THEN /\ test_fns' = Append(test_fns,
                                                TestFn(item, ex.ret[1], sig.sig))
                                        /\ UNCHANGED errors
                                   ELSE /\ errors' = add_error(errors,
                                                arity_error(item, fn_generic_arity,
                                                            mod_wide_generic_arity[1]))
                                        /\ UNCHANGED test_fns
    /\ UNCHANGED << attrs, inline, pc, result, inst, inst_prev, orig >>

\* The loop has ended: lines 89 and 38-39.
Tests_try_extract_return ==
    /\ pc = "loop"
    /\ pos > Len(items)
    /\ pc' = "done"
    /\ result' = try_extract_return(test_fns, errors)
    /\ UNCHANGED << attrs, inline, items, pos, test_fns, errors,
                    mod_wide_generic_arity, inst, inst_prev, built, orig >>

(***************************************************************************)
(* InstArguments::try_extract, lines 130-145.                              *)
(***************************************************************************)
ArgTokens == {"i32", "u8"}

\* The loop of syn's AngleBracketedGenericArguments parser after the `<`:
\* stop at `>`, else an argument, then stop at `>`, else a comma.  parse_args
\* also fails when tokens are left after the closing `>`.
RECURSIVE parse_generic_args(_, _, _)
parse_generic_args(tokens, p, args) ==
    IF p > Len(tokens)
    THEN [ok |-> FALSE, args |-> << >>]
    ELSE IF tokens[p] = ">"
    THEN [ok |-> p = Len(tokens), args |-> IF p = Len(tokens) THEN args ELSE << >>]
    ELSE IF tokens[p] \notin ArgTokens \/ p + 1 > Len(tokens)
    THEN [ok |-> FALSE, args |-> << >>]
    ELSE IF tokens[p + 1] = ">"
    THEN [ok |-> p + 1 = Len(tokens),
          args |-> IF p + 1 = Len(tokens) THEN Append(args, tokens[p]) ELSE << >>]
    ELSE IF tokens[p + 1] = ","
    THEN parse_generic_args(tokens, p + 2, Append(args, tokens[p]))
    ELSE [ok |-> FALSE, args |-> << >>]

\* attr.parse_args::<AngleBracketedGenericArguments>() of line 139.
parse_args(attr) ==
    IF Len(attr.tokens) = 0 \/ attr.tokens[1] # "<"
    THEN [ok |-> FALSE, args |-> << >>]
    ELSE parse_generic_args(attr.tokens, 2, << >>)

NotCalled == [tag |-> "NotCalled", value |-> None, msg |-> ""]
OkNone == [tag |-> "Ok", value |-> None, msg |-> ""]
OkSome(args) == [tag |-> "Ok", value |-> Some(args), msg |-> ""]
Err(msg) == [tag |-> "Err", value |-> None, msg |-> msg]

is_directive(attr) == attr.path = "instantiate_tests"

\* The mutant that drops every attribute of the directive's name.
directive_at_removing_all(mod_attrs, p) ==
    IF mod_attrs[p].style = "Inner"
    THEN [attrs |-> mod_attrs, ret |-> Err("cannot be an inner attribute")]
    ELSE IF ~parse_args(mod_attrs[p]).ok
    THEN [attrs |-> mod_attrs, ret |-> Err("parse")]
    ELSE [attrs |-> SelectSeq(mod_attrs, LAMBDA a : ~is_directive(a)),
          ret |-> OkSome(parse_args(mod_attrs[p]).args)]

\* The mutant that removes the attribute before it checks and parses it.
directive_at_removing_first(mod_attrs, p) ==
    IF mod_attrs[p].style = "Inner"
    THEN [attrs |-> Remove(mod_attrs, p), ret |-> Err("cannot be an inner attribute")]
    ELSE IF ~parse_args(mod_attrs[p]).ok
    THEN [attrs |-> Remove(mod_attrs, p), ret |-> Err("parse")]
    ELSE [attrs |-> Remove(mod_attrs, p),
          ret |-> OkSome(parse_args(mod_attrs[p]).args)]

\* The mutant that returns the arguments and leaves the attribute in place.
directive_at_keeping(mod_attrs, p) ==
    IF mod_attrs[p].style = "Inner"
    THEN [attrs |-> mod_attrs, ret |-> Err("cannot be an inner attribute")]
    ELSE IF ~parse_args(mod_attrs[p]).ok
    THEN [attrs |-> mod_attrs, ret |-> Err("parse")]
    ELSE [attrs |-> mod_attrs, ret |-> OkSome(parse_args(mod_attrs[p]).args)]

\* Lines 133-141, for the attribute at p that is named instantiate_tests.
directive_at(mod_attrs, p) ==
    IF mod_attrs[p].style = "Inner"
    THEN [attrs |-> mod_attrs, ret |-> Err("cannot be an inner attribute")]
    ELSE IF ~parse_args(mod_attrs[p]).ok
    THEN [attrs |-> mod_attrs, ret |-> Err("parse")]
    ELSE [attrs |-> Remove(mod_attrs, p),
          ret |-> OkSome(parse_args(mod_attrs[p]).args)]

\* The for loop of lines 131-144 from position p on.
RECURSIVE try_extract_scan(_, _)
try_extract_scan(mod_attrs, p) ==
    IF p > Len(mod_attrs)
    THEN [attrs |-> mod_attrs, ret |-> OkNone]
    ELSE IF is_directive(mod_attrs[p])
    THEN directive_at(mod_attrs, p)
    ELSE try_extract_scan(mod_attrs, p + 1)

\* A call of InstArguments::try_extract.  It borrows the module mutably, so
\* it does not run while Tests::try_extract holds the borrow.
InstArguments_try_extract ==
    /\ pc \in {"idle", "done"}
    /\ attrs' = try_extract_scan(attrs, 1).attrs
    /\ inst' = try_extract_scan(attrs, 1).ret
    /\ inst_prev' = inst
    /\ UNCHANGED << inline, items, pc, pos, test_fns, errors,
                    mod_wide_generic_arity, result, built, orig >>

(***************************************************************************)
(* The modules the analysis is run on.                                     *)
(***************************************************************************)
FnAttr(path) == [path |-> path, style |-> "Outer", tokens |-> << >>]

FnAttrs == {FnAttr(path) : path \in FnAttrPaths}

GenericParams == {"Type", "Const", "Lifetime"}

Inputs == {"typed", "receiver"}

Outputs == {"()", "bool"}

FnItem(ident, a, generics, inputs, asyncness, unsafety, output) ==
    [kind |-> "Fn", attrs |-> a, generics |-> generics, inputs |-> inputs,
     asyncness |-> asyncness, unsafety |-> unsafety, ident |-> ident,
     output |-> output]

OtherItem(ident) == [kind |-> "Other", ident |-> ident]

IdentAt(i) == << "f", "g", "h", "k", "m", "n" >>[i]

DirectivePayloads ==
    { << "<", "i32", ">" >>,
      << "<", "i32", ",", "u8", ",", ">" >>,
      << "<", "i32", "u8", ">" >> }

ModAttrs ==
    {[path |-> "instantiate_tests", style |-> st, tokens |-> t] :
        st \in {"Outer", "Inner"}, t \in DirectivePayloads}
    \cup {[path |-> "cfg", style |-> st, tokens |-> << >>] : st \in {"Outer", "Inner"}}

\* Attribute lists and generic parameter lists of the functions of a module
\* of several declarations.
FewAttrs ==
    { << FnAttr("cfg"), FnAttr("inline") >>,
      << FnAttr("cfg"), FnAttr("test"), FnAttr("bench"), FnAttr("inline") >> }

FewGenerics ==
    { << "Type" >>, << "Type", "Type" >> }

Shapes ==
    {[kind |-> "Fn", attrs |-> a, generics |-> g, inputs |-> i] :
        a \in FewAttrs, g \in FewGenerics, i \in Inputs}
    \cup {[kind |-> "Other"]}

ItemOfShape(shape, i) ==
    IF shape.kind = "Other"
    THEN OtherItem(IdentAt(i))
    ELSE FnItem(IdentAt(i), shape.attrs, shape.generics, shape.inputs,
                i % 2 = 1, i % 2 = 0, IF i % 3 = 0 THEN "bool" ELSE "()")

\* One function, every attribute list up to MaxAttrs.
OneFnByAttrs ==
    {<< FnItem("f", a, g, i, TRUE, FALSE, "()") >> :
        a \in SeqsUpTo(FnAttrs, MaxAttrs), g \in FewGenerics, i \in Inputs}

\* One function, every generic parameter list up to MaxGenerics and every
\* combination of qualifiers and return type.
OneFnBySignature ==
    {<< FnItem("f", a[1], g, a[2], q[1], q[2], q[3]) >> :
        a \in FewAttrs \X Inputs, g \in SeqsUpTo(GenericParams, MaxGenerics),
        q \in BOOLEAN \X BOOLEAN \X Outputs}

\* Up to MaxItems declarations, each of one of the Shapes.
SeveralItems ==
    UNION {{[i \in 1..k |-> ItemOfShape(s[i], i)] : s \in [1..k -> Shapes]} :
             k \in 0..MaxItems}

Init ==
    /\ \/ /\ inline = TRUE
          /\ attrs = << >>
          /\ items \in OneFnByAttrs \cup OneFnBySignature \cup SeveralItems
       \/ /\ inline \in BOOLEAN
          /\ attrs \in SeqsUpTo(ModAttrs, MaxModAttrs)
          /\ items = << >>
    /\ pc = "idle"
    /\ pos = 1
    /\ test_fns = << >>
    /\ errors = << >>
    /\ mod_wide_generic_arity = None
    /\ result = Pending
    /\ inst = NotCalled
    /\ inst_prev = NotCalled
    /\ built = {}
    /\ orig = [attrs |-> attrs, items |-> items]

Next ==
    \/ Tests_try_extract
    \/ extract_recording_errors_item
    \/ Tests_try_extract_return
    \/ InstArguments_try_extract

Spec == Init /\ [][Next]_vars

(***************************************************************************)
(* What the claims speak of, stated on the module as it was handed over.   *)
(***************************************************************************)
N == Len(orig.items)

Positions == [i \in 1..N |-> i]

Markers(a) == SelectSeq(a, is_test_attr)

NonMarkers(a) == SelectSeq(a, LAMBDA x : ~is_test_attr(x))

CopiedOf(a) == SelectSeq(NonMarkers(a), is_copied_attr)

IsFn(i) == orig.items[i].kind = "Fn"

IsCandidate(i) == IsFn(i) /\ Markers(orig.items[i].attrs) # << >>

Builds(i) == orig.items[i].inputs = "typed"

Arity(i) == Len(SelectSeq(orig.items[i].generics, LAMBDA g : g # "Lifetime"))

Visited(i) == pc = "done" \/ (pc = "loop" /\ i < pos)

\* Positions of the visited functions with a marker whose signature builds.
Built == {i \in 1..N : Visited(i) /\ IsCandidate(i) /\ Builds(i)}

First == CHOOSE i \in Built : \A j \in Built : i <= j

Baseline == IF Built = {} THEN None ELSE Some(Arity(First))

Accepted(i) == i \in Built /\ Arity(i) = Arity(First)

Rejected(i) == Visited(i) /\ IsCandidate(i) /\ ~Accepted(i)

AcceptedAt == SelectSeq(Positions, Accepted)

RejectedAt == SelectSeq(Positions, Rejected)

IsDone == pc = "done" /\ inline

Directives(a) == {i \in DOMAIN a : a[i].path = "instantiate_tests"}

FirstDirective(a) == CHOOSE i \in Directives(a) : \A j \in Directives(a) : i <= j

WellFormed == { << "<", "i32", ">" >>, << "<", "i32", ",", "u8", ",", ">" >> }

ArgsOf(tokens) == SelectSeq(tokens, LAMBDA t : t \in ArgTokens)

Without(a, i) == SubSeq(a, 1, i - 1) \o SubSeq(a, i + 1, Len(a))

\* C1: a call of Tests::try_extract on a module whose body is not inline
\* ends at once with the structural error, leaves the module's attributes,
\* its declarations and their attributes as they were, and produces no test
\* record and no aggregated error.
C1_NotInlineFailsUntouched ==
    [][(pc = "idle" /\ pc' # "idle" /\ ~inline) =>
        /\ pc' = "done"
        /\ result'.tag = "Err"
        /\ result'.err = << [span |-> "mod",
                             msg |-> "only inline modules are supported"] >>
        /\ result'.test_fns = << >>
        /\ attrs' = attrs
        /\ items' = items
        /\ test_fns' = << >>
        /\ errors' = << >>
        /\ built' = {}]_vars

C1_Witness ==
    /\ ~inline
    /\ pc = "done"
    /\ result.tag = "Err"
    /\ Len(attrs) >= 2

\* C2: the record of an accepted test function carries the function's
\* markers in their original order followed by the copied ones among its
\* other attributes in their original order, and the function keeps exactly
\* its non-marker attributes in their original order.
C2_RecordAttrsAndRemainder ==
    \A i \in 1..N :
        Accepted(i) =>
            /\ items[i].attrs = NonMarkers(orig.items[i].attrs)
            /\ \E k \in DOMAIN test_fns :
                /\ test_fns[k].ident = orig.items[i].ident
                /\ test_fns[k].test_attrs =
                       Markers(orig.items[i].attrs) \o CopiedOf(orig.items[i].attrs)

C2_Witness ==
    /\ IsDone
    /\ \E i \in 1..N :
        /\ Accepted(i)
        /\ orig.items[i].attrs =
               << FnAttr("cfg"), FnAttr("test"), FnAttr("bench") >>
        /\ Len(test_fns) = 1
        /\ Len(test_fns[1].test_attrs) = 3

\* C3: at every point of the pass all records have the arity of the
\* baseline, and the baseline is unset until the first function with a
\* marker whose signature builds has been visited and is that function's
\* arity (lifetimes not counted) from then on.
C3_ArityUniformBaselineFixed ==
    /\ mod_wide_generic_arity = Baseline
    /\ \A k \in DOMAIN test_fns :
        \E i \in 1..N :
            /\ orig.items[i].ident = test_fns[k].ident
            /\ IsFn(i)
            /\ mod_wide_generic_arity = Some(Arity(i))

C3_Witness ==
    /\ IsDone
    /\ Len(test_fns) >= 1
    /\ \E i, j \in 1..N :
        /\ First < i
        /\ First < j
        /\ Rejected(i) /\ Builds(i)
        /\ Rejected(j) /\ ~Builds(j) /\ Arity(j) # Arity(First)

\* C4: visiting a function without a test marker changes nothing: not the
\* function, not the collection, not the errors, not the baseline, and the
\* signature builder is not called on it.
C4_UnmarkedFunctionUntouched ==
    [][(/\ pc = "loop"
        /\ pos <= Len(items)
        /\ items[pos].kind = "Fn"
        /\ Markers(items[pos].attrs) = << >>) =>
        /\ items' = items
        /\ test_fns' = test_fns
        /\ errors' = errors
        /\ mod_wide_generic_arity' = mod_wide_generic_arity
        /\ built' = built]_vars

C4_Witness ==
    /\ IsDone
    /\ N >= 2
    /\ IsFn(1) /\ ~IsCandidate(1) /\ Builds(1)
    /\ CopiedOf(orig.items[1].attrs) # << >>
    /\ Accepted(2) /\ Arity(2) # Arity(1)
    /\ items[1] = orig.items[1]
    /\ built = {2}

\* C5: when the pass is over, the errors are one per rejected candidate in
\* declaration order, no rejected candidate is in the collection, and
\* Tests::try_extract returns the collection exactly when there is no error
\* and fails with all the errors otherwise; f<T> and g<T, U>, both marked,
\* give the one error for g and the collection of f alone.
C5_AllErrorsAggregated ==
    IsDone =>
        /\ pos = N + 1
        /\ Len(errors) = Len(RejectedAt)
        /\ \A k \in DOMAIN errors : errors[k].span = orig.items[RejectedAt[k]].ident
        /\ \A k \in DOMAIN errors :
            errors[k].msg = IF Builds(RejectedAt[k]) THEN "generic parameters"
                            ELSE "signature"
        /\ \A i \in 1..N : Rejected(i) =>
            \A k \in DOMAIN test_fns : test_fns[k].ident # orig.items[i].ident
        /\ (result.tag = "Ok") = (errors = << >>)
        /\ result.tag = "Ok" => result.test_fns = test_fns
        /\ result.tag # "Ok" => (result.tag = "Err" /\ result.err = errors)
        /\ (/\ N = 2
            /\ IsCandidate(1) /\ Builds(1) /\ orig.items[1].generics = << "Type" >>
            /\ IsCandidate(2) /\ Builds(2)
            /\ orig.items[2].generics = << "Type", "Type" >>) =>
                /\ errors = << [span |-> "g", msg |-> "generic parameters",
                                ident |-> "g", has |-> 2, others |-> 1] >>
                /\ Len(test_fns) = 1
                /\ test_fns[1].ident = "f"
                /\ result.tag = "Err"

C5_Witness ==
    /\ IsDone
    /\ N = 3
    /\ IsCandidate(1) /\ Builds(1) /\ orig.items[1].generics = << "Type" >>
    /\ IsCandidate(2) /\ Builds(2) /\ orig.items[2].generics = << "Type", "Type" >>
    /\ IsCandidate(3) /\ ~Builds(3)
    /\ Len(errors) = 2
    /\ result.tag = "Err"

\* C6 as claimed: on every module, the call of InstArguments::try_extract
\* that follows a call which returned arguments returns "no directive" and
\* leaves the attribute list unchanged.
C6_SecondCallFindsNothing ==
    [][(InstArguments_try_extract /\ inst.tag = "Ok" /\ inst.value # None) =>
        (inst' = OkNone /\ attrs' = attrs)]_vars

\* C6 amended: on a module that carried exactly one attribute named
\* instantiate_tests, the call of InstArguments::try_extract that follows a
\* call which returned arguments returns "no directive" and leaves the
\* attribute list unchanged.
C6_SecondCallFindsNothingIfSingle ==
    [][(/\ InstArguments_try_extract
        /\ inst.tag = "Ok"
        /\ inst.value # None
        /\ Cardinality(Directives(orig.attrs)) = 1) =>
        (inst' = OkNone /\ attrs' = attrs)]_vars

C6_Witness ==
    /\ Cardinality(Directives(orig.attrs)) = 1
    /\ Len(orig.attrs) = 3
    /\ inst_prev.tag = "Ok"
    /\ inst_prev.value # None
    /\ inst = OkNone
    /\ Len(attrs) = 2

\* C7: a call of InstArguments::try_extract on a list without an attribute
\* named instantiate_tests returns "no directive" and leaves the list as it
\* is; when the first such attribute is an outer one with a well-formed
\* payload the call returns its arguments in payload order and the list
\* afterwards is the list before without that one element, later
\* attributes of the same name included.
C7_FirstDirectiveOnly ==
    [][InstArguments_try_extract =>
        /\ Directives(attrs) = {} => (inst' = OkNone /\ attrs' = attrs)
        /\ (/\ Directives(attrs) # {}
            /\ attrs[FirstDirective(attrs)].style = "Outer"
            /\ attrs[FirstDirective(attrs)].tokens \in WellFormed) =>
                /\ inst' = OkSome(ArgsOf(attrs[FirstDirective(attrs)].tokens))
                /\ attrs' = Without(attrs, FirstDirective(attrs))]_vars

C7_Witness ==
    /\ inst_prev = NotCalled
    /\ inst = OkSome(<< "i32", "u8" >>)
    /\ Len(orig.attrs) = 3
    /\ orig.attrs[1].path = "cfg"
    /\ Directives(orig.attrs) = {2, 3}
    /\ attrs = << orig.attrs[1], orig.attrs[3] >>

\* C8: a call of InstArguments::try_extract that fails leaves the
\* attribute list as it is; it fails with "cannot be an inner attribute"
\* when the first attribute named instantiate_tests is an inner one,
\* whatever its payload and whatever follows it, and with the parse error
\* when that attribute is an outer one with a malformed payload.
C8_FailureLeavesAttrs ==
    [][InstArguments_try_extract =>
        /\ inst'.tag = "Err" => attrs' = attrs
        /\ (/\ Directives(attrs) # {}
            /\ attrs[FirstDirective(attrs)].style = "Inner") =>
                /\ inst' = Err("cannot be an inner attribute")
                /\ attrs' = attrs
        /\ (/\ Directives(attrs) # {}
            /\ attrs[FirstDirective(attrs)].style = "Outer"
            /\ attrs[FirstDirective(attrs)].tokens \notin WellFormed) =>
                /\ inst' = Err("parse")
                /\ attrs' = attrs]_vars

C8_Witness ==
    /\ inst = Err("cannot be an inner attribute")
    /\ Len(attrs) = 3
    /\ attrs = orig.attrs
    /\ Directives(attrs) = {2, 3}
    /\ attrs[2].style = "Inner"
    /\ attrs[2].tokens \notin WellFormed
    /\ attrs[3].style = "Outer"
    /\ attrs[3].tokens \in WellFormed

\* C9: a visited function with a marker that was rejected keeps its place
\* and is its original without the marker attributes, also when
\* Tests::try_extract has failed; no declaration is removed or reordered.
C9_RejectedStaysStripped ==
    /\ Len(items) = N
    /\ \A i \in 1..N :
        /\ items[i].ident = orig.items[i].ident
        /\ items[i].kind = orig.items[i].kind
        /\ ~IsFn(i) => items[i] = orig.items[i]
        /\ Rejected(i) =>
            items[i] = [orig.items[i] EXCEPT
                            !.attrs = NonMarkers(orig.items[i].attrs)]

C9_Witness ==
    /\ IsDone
    /\ result.tag = "Err"
    /\ N = 3
    /\ Accepted(1)
    /\ Rejected(2) /\ Builds(2)
    /\ Rejected(3) /\ ~Builds(3)
    /\ Len(orig.items[2].attrs) = 4
    /\ Len(items[2].attrs) = 2

\* C10: at every point the collection is, in declaration order and one
\* record each, the visited functions with a marker whose signature builds
\* and whose arity is the baseline, each record with the qualifiers, the
\* name and the return type of its function.
C10_CollectionIsAcceptedInOrder ==
    /\ Len(test_fns) = Len(AcceptedAt)
    /\ \A k \in DOMAIN test_fns :
        /\ test_fns[k].ident = orig.items[AcceptedAt[k]].ident
        /\ test_fns[k].asyncness = orig.items[AcceptedAt[k]].asyncness
        /\ test_fns[k].unsafety = orig.items[AcceptedAt[k]].unsafety
        /\ test_fns[k].output = orig.items[AcceptedAt[k]].output

C10_Witness ==
    /\ IsDone
    /\ N = 3
    /\ Accepted(1)
    /\ Rejected(2)
    /\ Accepted(3)
    /\ Len(test_fns) = 2
    /\ test_fns[2].output = "bool"

====
